---- MODULE Spec2Model ----
(***************************************************************************)
(* MarkTidy (src/app.py): a pipeline of markdown clean-up transforms.      *)
(* A text is a sequence of one-character strings; a document is a sequence *)
(* of lines, each a text without line breaks.                              *)
(***************************************************************************)
EXTENDS Integers, Sequences, FiniteSets, TLC

VARIABLES input_text, opt, output_text, lines, pc, arg, result, calls, fn

vars == <<input_text, opt, output_text, lines, pc, arg, result, calls, fn>>

pipeVars == <<input_text, opt, output_text, lines, pc>>

(***************************************************************************)
(* Characters and the str / re primitives the code uses.                   *)
(***************************************************************************)
NL == "\n"

CR == "\r"

Whitespace == {" ", "\t", NL, CR}

Digits == {"0", "1", "2", "3", "4", "5", "6", "7", "8", "9"}

Letters == {"a", "b", "c", "d", "e", "f", "g", "h", "i", "j", "k", "l", "m",
            "n", "o", "p", "q", "r", "s", "t", "u", "v", "w", "x", "y", "z",
            "A", "B", "C", "D", "E", "F", "G", "H", "I", "J", "K", "L", "M",
            "N", "O", "P", "Q", "R", "S", "T", "U", "V", "W", "X", "Y", "Z"}

RuleChars == {"-", "*", "_"}

IsSpace(c) == c \in Whitespace

IsAlnum(c) == c \in Digits \cup Letters

Drop(s, n) == SubSeq(s, n + 1, Len(s))

Take(s, n) == SubSeq(s, 1, n)

\* s[i:].startswith(p), i counted from 1
StartsWithAt(s, p, i) ==
    /\ i >= 1
    /\ i + Len(p) - 1 <= Len(s)
    /\ \A k \in 1..Len(p) : s[i + k - 1] = p[k]

StartsWith(s, p) == StartsWithAt(s, p, 1)

\* the first position >= i that is past the end or holds a character outside cls
RECURSIVE SkipWhile(_, _, _)
SkipWhile(s, cls, i) ==
    IF i <= Len(s) /\ s[i] \in cls THEN SkipWhile(s, cls, i + 1) ELSE i

\* the last position <= i that is before the start or holds a character outside cls
RECURSIVE SkipBack(_, _, _)
SkipBack(s, cls, i) ==
    IF i >= 1 /\ s[i] \in cls THEN SkipBack(s, cls, i - 1) ELSE i

\* the first position >= i holding character c, or 0
RECURSIVE FindChar(_, _, _)
FindChar(s, c, i) ==
    IF i > Len(s) THEN 0
    ELSE IF s[i] = c THEN i
    ELSE FindChar(s, c, i + 1)

strip(s) ==
    LET a == SkipWhile(s, Whitespace, 1)
        b == SkipBack(s, Whitespace, Len(s))
    IN  IF a > b THEN <<>> ELSE SubSeq(s, a, b)

\* str.splitlines(): breaks at \n, \r and \r\n, and no empty last line after a
\* final line break
RECURSIVE splitlines_from(_, _, _, _)
splitlines_from(s, i, cur, acc) ==
    IF i > Len(s) THEN (IF cur = <<>> THEN acc ELSE Append(acc, cur))
    ELSE IF s[i] = CR /\ i < Len(s) /\ s[i + 1] = NL
         THEN splitlines_from(s, i + 2, <<>>, Append(acc, cur))
    ELSE IF s[i] \in {NL, CR}
         THEN splitlines_from(s, i + 1, <<>>, Append(acc, cur))
    ELSE splitlines_from(s, i + 1, Append(cur, s[i]), acc)

splitlines(s) == splitlines_from(s, 1, <<>>, <<>>)

\* "\n".join(ls)
RECURSIVE join(_)
join(ls) ==
    IF ls = <<>> THEN <<>>
    ELSE IF Len(ls) = 1 THEN ls[1]
    ELSE ls[1] \o <<NL>> \o join(Tail(ls))

\* "#" * n
RECURSIVE Hashes(_)
Hashes(n) == IF n <= 0 THEN <<>> ELSE <<"#">> \o Hashes(n - 1)

DigitOf(d) ==
    CASE d = 0 -> "0" [] d = 1 -> "1" [] d = 2 -> "2" [] d = 3 -> "3"
      [] d = 4 -> "4" [] d = 5 -> "5" [] d = 6 -> "6" [] d = 7 -> "7"
      [] d = 8 -> "8" [] d = 9 -> "9"

\* str(n) for n >= 0
RECURSIVE str(_)
str(n) == IF n < 10 THEN <<DigitOf(n)>> ELSE str(n \div 10) \o <<DigitOf(n % 10)>>

(***************************************************************************)
(* Line classification.                                                    *)
(***************************************************************************)
\* SANY cannot lex a backquote inside a string literal: the character U+0060
\* is written "bq" (characters are atoms, only their equality matters)
Backquote == "bq"

Fence == <<Backquote, Backquote, Backquote>>

\* stripped_line.startswith("```")
is_fence(line) == StartsWith(strip(line), Fence)

\* line.strip().startswith("#")
is_heading_like(line) == StartsWith(strip(line), <<"#">>)

\* re.match(r"^\d+\.\s", s)
is_ordered_item(s) ==
    LET d == SkipWhile(s, Digits, 1)
    IN  d > 1 /\ d + 1 <= Len(s) /\ s[d] = "." /\ IsSpace(s[d + 1])

\* the flag of the first pass of remove_blank_lines_between_list_items
is_list_item(line) ==
    \/ StartsWith(strip(line), <<"-", " ">>)
    \/ StartsWith(strip(line), <<"*", " ">>)
    \/ is_ordered_item(strip(line))

\* re.match(r"^\s*([-*_]){3,}\s*$", line) on a line without line breaks
is_rule(line) ==
    LET a == SkipWhile(line, Whitespace, 1)
        b == SkipWhile(line, RuleChars, a)
        c == SkipWhile(line, Whitespace, b)
    IN  b - a >= 3 /\ c > Len(line)

\* re.match(r"^(#+)(\s*)(.*)", line) on a line without line breaks
heading_match(line) ==
    LET h == SkipWhile(line, {"#"}, 1)
        w == SkipWhile(line, Whitespace, h)
    IN  [matched |-> h > 1,
         level |-> h - 1,
         space |-> SubSeq(line, h, w - 1),
         content |-> SubSeq(line, w, Len(line))]

(***************************************************************************)
(* shift_headings, src/app.py 33-59.                                       *)
(***************************************************************************)
\* faulty variant, used to test the properties: no clamp to 1..6
shift_level_unclamped(level, direction) ==
    IF direction = "+1" THEN level + 1 ELSE level - 1

shift_level(level, direction) ==
    IF direction = "+1" /\ level < 6 THEN level + 1
    ELSE IF direction = "-1" /\ level > 1 THEN level - 1
    ELSE level

shift_line(line, direction) ==
    LET m == heading_match(line)
    IN  IF is_heading_like(line) /\ m.matched
        THEN Hashes(shift_level(m.level, direction)) \o m.space \o m.content
        ELSE line

shift_headings(md_text, direction) ==
    LET ls == splitlines(md_text)
    IN  join([i \in 1..Len(ls) |-> shift_line(ls[i], direction)])

(***************************************************************************)
(* number_headings, src/app.py 118-183.                                    *)
(***************************************************************************)
ZeroCounters == <<0, 0, 0, 0, 0>>

\* re.sub(r"^(\d+\.)+\s*", "", s)
RECURSIVE skip_number_groups(_, _)
skip_number_groups(s, i) ==
    LET d == SkipWhile(s, Digits, i)
    IN  IF d > i /\ d <= Len(s) /\ s[d] = "." THEN skip_number_groups(s, d + 1)
        ELSE i

\* faulty variant, used to test the properties: the number written by an earlier run is not stripped
strip_number_prefix_kept(s) == s

strip_number_prefix(s) ==
    LET g == skip_number_groups(s, 1)
    IN  IF g = 1 THEN s ELSE Drop(s, SkipWhile(s, Whitespace, g) - 1)

\* [str(c) for c in counters[:n] if c > 0]
RECURSIVE number_parts(_, _)
number_parts(counters, n) ==
    IF n = 0 THEN <<>>
    ELSE IF counters[n] > 0
         THEN Append(number_parts(counters, n - 1), str(counters[n]))
         ELSE number_parts(counters, n - 1)

\* ".".join(parts)
RECURSIVE dot_join(_)
dot_join(parts) ==
    IF parts = <<>> THEN <<>>
    ELSE IF Len(parts) = 1 THEN parts[1]
    ELSE parts[1] \o <<".">> \o dot_join(Tail(parts))

\* number_prefix for a heading of the given level
number_prefix(counters, level) ==
    dot_join(number_parts(counters, level - 1)) \o <<".">>

\* faulty variant, used to test the properties: the counters of the deeper levels are not reset
bump_counters_no_reset(counters, level) ==
    [k \in 1..5 |-> IF k = level - 1 THEN counters[k] + 1 ELSE counters[k]]

bump_counters(counters, level) ==
    [k \in 1..5 |-> IF k >= level THEN 0
                    ELSE IF k = level - 1 THEN counters[k] + 1
                    ELSE counters[k]]

\* one iteration of the loop of number_headings
number_line(st, line) ==
    LET m == heading_match(line)
    IN  IF is_fence(line)
        THEN [st EXCEPT !.in_code_block = ~st.in_code_block,
                        !.new_lines = Append(st.new_lines, line)]
        ELSE IF st.in_code_block
        THEN [st EXCEPT !.new_lines = Append(st.new_lines, line)]
        ELSE IF ~m.matched
        THEN [st EXCEPT !.new_lines = Append(st.new_lines, line)]
        ELSE IF m.level = 1
        THEN [st EXCEPT !.counters = ZeroCounters,
                        !.new_lines = Append(st.new_lines, line)]
        ELSE IF m.level <= 6
        THEN LET cs == bump_counters(st.counters, m.level)
                 content_clean == strip_number_prefix(strip(m.content))
             IN  [st EXCEPT !.counters = cs,
                            !.new_lines = Append(st.new_lines,
                                Hashes(m.level) \o m.space
                                \o number_prefix(cs, m.level)
                                \o <<" ">> \o strip(content_clean))]
        ELSE [st EXCEPT !.new_lines = Append(st.new_lines, line)]

\* the loop's state after its first n iterations
RECURSIVE number_state(_, _)
number_state(ls, n) ==
    IF n = 0
    THEN [counters |-> ZeroCounters, in_code_block |-> FALSE, new_lines |-> <<>>]
    ELSE number_line(number_state(ls, n - 1), ls[n])

number_headings(md_text) ==
    LET ls == splitlines(md_text)
    IN  join(number_state(ls, Len(ls)).new_lines)

(***************************************************************************)
(* extract_headings, src/app.py 259-287.                                   *)
(***************************************************************************)
\* faulty variant, used to test the properties: the fence flag is toggled and not consulted
extract_line_in_code(st, line) ==
    IF is_fence(line)
    THEN [st EXCEPT !.in_code_block = ~st.in_code_block]
    ELSE IF is_heading_like(line)
    THEN [st EXCEPT !.heading_lines = Append(st.heading_lines, line)]
    ELSE st

extract_line(st, line) ==
    IF is_fence(line)
    THEN [st EXCEPT !.in_code_block = ~st.in_code_block]
    ELSE IF st.in_code_block THEN st
    ELSE IF is_heading_like(line)
    THEN [st EXCEPT !.heading_lines = Append(st.heading_lines, line)]
    ELSE st

RECURSIVE extract_state(_, _)
extract_state(ls, n) ==
    IF n = 0 THEN [in_code_block |-> FALSE, heading_lines |-> <<>>]
    ELSE extract_line(extract_state(ls, n - 1), ls[n])

extract_headings(md_text) ==
    LET ls == splitlines(md_text)
    IN  join(extract_state(ls, Len(ls)).heading_lines)

(***************************************************************************)
(* remove_paragraph, src/app.py 83-116.                                    *)
(***************************************************************************)
keeps_line(line) ==
    \/ StartsWith(strip(line), <<"#">>)
    \/ StartsWith(strip(line), <<"-", " ">>)
    \/ StartsWith(strip(line), <<"*", " ">>)
    \/ is_ordered_item(strip(line))
    \/ is_rule(strip(line))
    \/ strip(line) = <<>>

paragraph_line(st, line) ==
    IF is_fence(line)
    THEN [st EXCEPT !.in_code_block = ~st.in_code_block]
    ELSE IF st.in_code_block THEN st
    ELSE IF keeps_line(line)
    THEN [st EXCEPT !.new_lines = Append(st.new_lines, line)]
    ELSE st

RECURSIVE paragraph_state(_, _)
paragraph_state(ls, n) ==
    IF n = 0 THEN [in_code_block |-> FALSE, new_lines |-> <<>>]
    ELSE paragraph_line(paragraph_state(ls, n - 1), ls[n])

remove_paragraph(md_text) ==
    LET ls == splitlines(md_text)
    IN  join(paragraph_state(ls, Len(ls)).new_lines)

(***************************************************************************)
(* remove_blank_lines_between_list_items, src/app.py 185-218.              *)
(***************************************************************************)
\* the first pass
is_list_item_flags(ls) == [i \in 1..Len(ls) |-> is_list_item(ls[i])]

\* faulty variant, used to test the properties: the line after the blank line is not looked at
skips_blank_after_list(ls, flags, i) ==
    LET prev_line_was_list_item == IF i > 1 THEN flags[i - 1] ELSE FALSE
        current_line_is_blank == strip(ls[i]) = <<>>
    IN  current_line_is_blank /\ prev_line_was_list_item

\* the condition of the second pass on line i of ls
skips_blank(ls, flags, i) ==
    LET prev_line_was_list_item == IF i > 1 THEN flags[i - 1] ELSE FALSE
        current_line_is_blank == strip(ls[i]) = <<>>
        next_line_is_list_item == IF i < Len(ls) THEN flags[i + 1] ELSE FALSE
    IN  current_line_is_blank /\ prev_line_was_list_item /\ next_line_is_list_item

RECURSIVE collapse_from(_, _, _)
collapse_from(ls, flags, i) ==
    IF i > Len(ls) THEN <<>>
    ELSE IF skips_blank(ls, flags, i) THEN collapse_from(ls, flags, i + 1)
    ELSE <<ls[i]>> \o collapse_from(ls, flags, i + 1)

remove_blank_lines_between_list_items(ls) ==
    collapse_from(ls, is_list_item_flags(ls), 1)

(***************************************************************************)
(* The regular-expression substitutions.                                   *)
(***************************************************************************)
\* the end of a lazy  .*? / .+?  that starts at a and is followed by close: the
\* least q >= a + min with close at q and, without DOTALL, no \n in s[a..q-1]
RECURSIVE lazy_close(_, _, _, _, _, _)
lazy_close(s, close, a, min, dotall, q) ==
    IF q + Len(close) - 1 > Len(s) THEN 0
    ELSE IF q >= a + min /\ StartsWithAt(s, close, q) THEN q
    ELSE IF ~dotall /\ s[q] = NL THEN 0
    ELSE lazy_close(s, close, a, min, dotall, q + 1)

\* re.sub(open(.*?)close, r"\1", s), scanning from i
RECURSIVE unwrap_from(_, _, _, _)
unwrap_from(s, open, close, i) ==
    IF i > Len(s) THEN <<>>
    ELSE LET a == i + Len(open)
             q == IF StartsWithAt(s, open, i)
                  THEN lazy_close(s, close, a, 0, FALSE, a) ELSE 0
         IN  IF q # 0
             THEN SubSeq(s, a, q - 1) \o unwrap_from(s, open, close, q + Len(close))
             ELSE <<s[i]>> \o unwrap_from(s, open, close, i + 1)

unwrap(s, mark) == unwrap_from(s, mark, mark, 1)

\* re.sub(r"\*\*(.*?)\*\*", r"\1", s)
unwrap_bold(s) == unwrap(s, <<"*", "*">>)

\* re.sub(r"~~(.*?)~~", r"\1", s)
unwrap_strikethrough(s) == unwrap(s, <<"~", "~">>)

\* \[([^\]]*)\]\([^)]+\) matched at i: [bracket, paren] the positions of its
\* "]" and its ")", or <<0, 0>>
link_at(s, i) ==
    LET r == IF i <= Len(s) /\ s[i] = "[" THEN FindChar(s, "]", i + 1) ELSE 0
        c == IF r # 0 /\ r + 1 <= Len(s) /\ s[r + 1] = "("
             THEN FindChar(s, ")", r + 2) ELSE 0
    IN  IF c > r + 2 THEN <<r, c>> ELSE <<0, 0>>

\* re.sub(r"\[([^\]]*)\]\([^)]+\)", r"\1", s), scanning from i
RECURSIVE unwrap_links_from(_, _)
unwrap_links_from(s, i) ==
    IF i > Len(s) THEN <<>>
    ELSE LET m == link_at(s, i)
         IN  IF m[1] # 0
             THEN SubSeq(s, i + 1, m[1] - 1) \o unwrap_links_from(s, m[2] + 1)
             ELSE <<s[i]>> \o unwrap_links_from(s, i + 1)

unwrap_links(s) == unwrap_links_from(s, 1)

\* re.sub(r"!\[([^\]]*)\]\([^)]+\)", r"\1", s), scanning from i
RECURSIVE unwrap_images_from(_, _)
unwrap_images_from(s, i) ==
    IF i > Len(s) THEN <<>>
    ELSE LET m == IF s[i] = "!" THEN link_at(s, i + 1) ELSE <<0, 0>>
         IN  IF m[1] # 0
             THEN SubSeq(s, i + 2, m[1] - 1) \o unwrap_images_from(s, m[2] + 1)
             ELSE <<s[i]>> \o unwrap_images_from(s, i + 1)

unwrap_images(s) == unwrap_images_from(s, 1)

\* !\[.*?\]\([^)]+\) matched at i: the position of its ")", or 0; r is the
\* candidate end of the lazy .*?
RECURSIVE image_close(_, _)
image_close(s, r) ==
    IF r + 3 > Len(s) THEN 0
    ELSE LET c == FindChar(s, ")", r + 2)
         IN  IF s[r] = "]" /\ s[r + 1] = "(" /\ c > r + 2 THEN c
             ELSE IF s[r] = NL THEN 0
             ELSE image_close(s, r + 1)

\* re.sub(r"!\[.*?\]\([^)]+\)", "", s), scanning from i
RECURSIVE delete_images_from(_, _)
delete_images_from(s, i) ==
    IF i > Len(s) THEN <<>>
    ELSE LET c == IF StartsWithAt(s, <<"!", "[">>, i) THEN image_close(s, i + 2) ELSE 0
         IN  IF c # 0 THEN delete_images_from(s, c + 1)
             ELSE <<s[i]>> \o delete_images_from(s, i + 1)

delete_images(s) == delete_images_from(s, 1)

\* the largest k in a..b with s[k] = "\n", or 0
RECURSIVE last_newline(_, _, _)
last_newline(s, a, b) ==
    IF b < a THEN 0
    ELSE IF s[b] = NL THEN b
    ELSE last_newline(s, a, b - 1)

\* ^\s*([-*_]){3,}\s*$ with re.MULTILINE matched at i: the position after the
\* match, or 0. Both \s* run over line breaks; $ stands at the end of the text or
\* before a \n
rule_match_end(s, i) ==
    LET a == SkipWhile(s, Whitespace, i)
        b == SkipWhile(s, RuleChars, a)
        c == SkipWhile(s, Whitespace, b)
    IN  IF ~(i = 1 \/ s[i - 1] = NL) \/ b - a < 3 THEN 0
        ELSE IF c > Len(s) THEN c
        ELSE last_newline(s, b, c - 1)

\* re.sub(r"^\s*([-*_]){3,}\s*$", "", s, flags=re.MULTILINE), scanning from i
RECURSIVE delete_rules_from(_, _)
delete_rules_from(s, i) ==
    IF i > Len(s) THEN <<>>
    ELSE LET e == rule_match_end(s, i)
         IN  IF e # 0 THEN delete_rules_from(s, e)
             ELSE <<s[i]>> \o delete_rules_from(s, i + 1)

delete_rules(s) == delete_rules_from(s, 1)

(***************************************************************************)
(* fix_bold_symbol_issue, src/app.py 61-81.                                *)
(***************************************************************************)
\* faulty variant, used to test the properties: only the last character of the content is looked at
has_symbol_at_end(inner) == ~IsAlnum(inner[Len(inner)]) /\ ~IsSpace(inner[Len(inner)])

\* re.search(r"[^0-9A-Za-z\s]", inner)
has_symbol(inner) ==
    \E k \in 1..Len(inner) : ~IsAlnum(inner[k]) /\ ~IsSpace(inner[k])

\* faulty variant, used to test the properties: the space is added whatever follows the match
repl_always(inner, after) ==
    IF has_symbol(inner)
    THEN <<"*", "*">> \o inner \o <<"*", "*", " ">> \o after
    ELSE <<"*", "*">> \o inner \o <<"*", "*">> \o after

\* repl: what replaces a match with the given inner and after groups
repl(inner, after) ==
    IF has_symbol(inner) /\ after = <<>>
    THEN <<"*", "*">> \o inner \o <<"*", "*", " ">>
    ELSE <<"*", "*">> \o inner \o <<"*", "*">> \o after

\* \*\*(.+?)\*\*(\s*) with re.DOTALL matched at i: [close, stop] the position of
\* the closing ** and the position after the match, or <<0, 0>>
bold_at(s, i) ==
    LET q == IF StartsWithAt(s, <<"*", "*">>, i)
             THEN lazy_close(s, <<"*", "*">>, i + 2, 1, TRUE, i + 2) ELSE 0
    IN  IF q # 0 THEN <<q, SkipWhile(s, Whitespace, q + 2)>> ELSE <<0, 0>>

\* pattern.sub(repl, md), scanning from i
RECURSIVE fix_bold_from(_, _)
fix_bold_from(s, i) ==
    IF i > Len(s) THEN <<>>
    ELSE LET m == bold_at(s, i)
         IN  IF m[1] # 0
             THEN repl(SubSeq(s, i + 2, m[1] - 1), SubSeq(s, m[1] + 2, m[2] - 1))
                  \o fix_bold_from(s, m[2])
             ELSE <<s[i]>> \o fix_bold_from(s, i + 1)

fix_bold_symbol_issue(md) == fix_bold_from(md, 1)

(***************************************************************************)
(* clear_markdown_format, src/app.py 220-256.                              *)
(***************************************************************************)
\* re.sub(r"^#+\s*", "", line)
strip_heading_marker(line) ==
    LET h == SkipWhile(line, {"#"}, 1)
    IN  IF h > 1 THEN Drop(line, SkipWhile(line, Whitespace, h) - 1) ELSE line

\* re.sub(r"^\s*([\*\-\+]|\d+\.)\s+", "", line)
strip_list_marker(line) ==
    LET a == SkipWhile(line, Whitespace, 1)
        d == SkipWhile(line, Digits, a)
        b == IF a <= Len(line) /\ line[a] \in {"*", "-", "+"} THEN a + 1
             ELSE IF d > a /\ d <= Len(line) /\ line[d] = "." THEN d + 1
             ELSE 0
        c == SkipWhile(line, Whitespace, b)
    IN  IF b # 0 /\ c > b THEN Drop(line, c - 1) ELSE line

\* re.sub(r"^\s*>\s?", "", line)
strip_blockquote(line) ==
    LET a == SkipWhile(line, Whitespace, 1)
    IN  IF a <= Len(line) /\ line[a] = ">"
        THEN (IF a + 1 <= Len(line) /\ IsSpace(line[a + 1])
              THEN Drop(line, a + 1) ELSE Drop(line, a))
        ELSE line

\* steps 1-3: the substitutions on the whole text
clear_inline(md_text) ==
    unwrap(unwrap(unwrap(unwrap(unwrap(unwrap_bold(unwrap_links(unwrap_images(md_text))),
        <<"_", "_">>), <<"*">>), <<"_">>), <<"~", "~">>), <<Backquote>>)

\* steps 4-6 on one line
clear_line(line) == strip_blockquote(strip_list_marker(strip_heading_marker(line)))

RECURSIVE clear_lines_from(_, _)
clear_lines_from(ls, i) ==
    IF i > Len(ls) THEN <<>>
    ELSE IF is_rule(clear_line(ls[i])) THEN clear_lines_from(ls, i + 1)
    ELSE <<clear_line(ls[i])>> \o clear_lines_from(ls, i + 1)

clear_markdown_format(md_text) ==
    join(clear_lines_from(splitlines(clear_inline(md_text)), 1))

(***************************************************************************)
(* The option widgets, src/app.py 16-29, and the inputs of the model.      *)
(***************************************************************************)
\* the widgets' default values
DefaultOptions ==
    [clear_formatting |-> FALSE, remove_blank_lines |-> TRUE,
     remove_links |-> FALSE, remove_images |-> TRUE, remove_bold |-> FALSE,
     fix_bold_symbols |-> TRUE, remove_strikethrough |-> FALSE,
     remove_horizontal |-> FALSE, extract_heading |-> FALSE,
     remove_plain_text |-> FALSE, auto_number_headings |-> FALSE,
     heading_shift |-> 0]

\* every checkbox cleared and the slider at 0
NoOptions ==
    [DefaultOptions EXCEPT !.remove_blank_lines = FALSE, !.remove_images = FALSE,
                           !.fix_bold_symbols = FALSE]

\* the slider's range, min_value=-3, max_value=3
ShiftRange == -3..3

MaxTextLen == 4

MaxLines == 4

MaxBoldLen == 6

MaxListLines == 5

MaxShiftLines == 2

MaxCalls == 2

MaxClearLines == 3

\* all sequences over S of length 0..n
SeqsUpTo(S, n) == UNION {[1..k -> S] : k \in 0..n}

\* the texts made of 1..n lines of S
Docs(S, n) == {join(ls) : ls \in SeqsUpTo(S, n) \ {<<>>}}

(***************************************************************************)
(* The main processing logic, src/app.py 290-341, one action a statement.  *)
(***************************************************************************)
Idle == arg = <<>> /\ result = <<>> /\ calls = 0 /\ fn = "none"

\* line 291, for the inputs and option sets given
PipelineInit(inputs, options) ==
    /\ input_text \in inputs
    /\ opt \in options
    /\ output_text = input_text
    /\ lines = <<>>
    /\ pc = "start"
    /\ Idle

\* line 293: blank input skips every stage
Guard ==
    /\ pc = "start"
    /\ pc' = IF strip(input_text) # <<>> THEN "extract" ELSE "done"
    /\ UNCHANGED <<input_text, opt, output_text, lines, arg, result, calls, fn>>

\* lines 294-295
ExtractStage ==
    /\ pc = "extract"
    /\ pc' = "split"
    /\ output_text' =
          IF opt.extract_heading THEN extract_headings(output_text) ELSE output_text
    /\ UNCHANGED <<input_text, opt, lines, arg, result, calls, fn>>

\* line 298
SplitStage ==
    /\ pc = "split"
    /\ pc' = "collapse"
    /\ lines' = splitlines(output_text)
    /\ UNCHANGED <<input_text, opt, output_text, arg, result, calls, fn>>

\* lines 301-302
CollapseStage ==
    /\ pc = "collapse"
    /\ pc' = "bold"
    /\ lines' =
          IF opt.remove_blank_lines
          THEN remove_blank_lines_between_list_items(lines) ELSE lines
    /\ UNCHANGED <<input_text, opt, output_text, arg, result, calls, fn>>

\* lines 304-305
RemoveBoldStage ==
    /\ pc = "bold"
    /\ pc' = "links"
    /\ lines' =
          IF opt.remove_bold
          THEN [i \in 1..Len(lines) |-> unwrap_bold(lines[i])] ELSE lines
    /\ UNCHANGED <<input_text, opt, output_text, arg, result, calls, fn>>

\* lines 307-308
RemoveLinksStage ==
    /\ pc = "links"
    /\ pc' = "images"
    /\ lines' =
          IF opt.remove_links
          THEN [i \in 1..Len(lines) |-> unwrap_links(lines[i])] ELSE lines
    /\ UNCHANGED <<input_text, opt, output_text, arg, result, calls, fn>>

\* lines 310-311
RemoveImagesStage ==
    /\ pc = "images"
    /\ pc' = "strike"
    /\ lines' =
          IF opt.remove_images
          THEN [i \in 1..Len(lines) |-> delete_images(lines[i])] ELSE lines
    /\ UNCHANGED <<input_text, opt, output_text, arg, result, calls, fn>>

\* lines 313-314
RemoveStrikethroughStage ==
    /\ pc = "strike"
    /\ pc' = "join"
    /\ lines' =
          IF opt.remove_strikethrough
          THEN [i \in 1..Len(lines) |-> unwrap_strikethrough(lines[i])] ELSE lines
    /\ UNCHANGED <<input_text, opt, output_text, arg, result, calls, fn>>

\* line 317
JoinStage ==
    /\ pc = "join"
    /\ pc' = "fixbold"
    /\ output_text' = join(lines)
    /\ UNCHANGED <<input_text, opt, lines, arg, result, calls, fn>>

\* lines 320-321
FixBoldStage ==
    /\ pc = "fixbold"
    /\ pc' = "horizontal"
    /\ output_text' =
          IF opt.fix_bold_symbols THEN fix_bold_symbol_issue(output_text)
          ELSE output_text
    /\ UNCHANGED <<input_text, opt, lines, arg, result, calls, fn>>

\* lines 323-324
RemoveHorizontalStage ==
    /\ pc = "horizontal"
    /\ pc' = "shift"
    /\ output_text' =
          IF opt.remove_horizontal THEN delete_rules(output_text) ELSE output_text
    /\ UNCHANGED <<input_text, opt, lines, arg, result, calls, fn>>

\* the loop of lines 329-330: shift_headings applied n times
RECURSIVE shift_repeatedly(_, _, _)
shift_repeatedly(text, direction, n) ==
    IF n = 0 THEN text
    ELSE shift_repeatedly(shift_headings(text, direction), direction, n - 1)

\* lines 327-330
ShiftStage ==
    /\ pc = "shift"
    /\ pc' = "plain"
    /\ output_text' =
          IF opt.heading_shift # 0
          THEN shift_repeatedly(output_text,
                                IF opt.heading_shift > 0 THEN "+1" ELSE "-1",
                                IF opt.heading_shift > 0 THEN opt.heading_shift
                                ELSE 0 - opt.heading_shift)
          ELSE output_text
    /\ UNCHANGED <<input_text, opt, lines, arg, result, calls, fn>>

\* lines 332-333
RemovePlainStage ==
    /\ pc = "plain"
    /\ pc' = "number"
    /\ output_text' =
          IF opt.remove_plain_text THEN remove_paragraph(output_text) ELSE output_text
    /\ UNCHANGED <<input_text, opt, lines, arg, result, calls, fn>>

\* lines 336-337
NumberStage ==
    /\ pc = "number"
    /\ pc' = "clear"
    /\ output_text' =
          IF opt.auto_number_headings THEN number_headings(output_text)
          ELSE output_text
    /\ UNCHANGED <<input_text, opt, lines, arg, result, calls, fn>>

\* lines 339-341
ClearStage ==
    /\ pc = "clear"
    /\ pc' = "done"
    /\ output_text' =
          IF opt.clear_formatting THEN clear_markdown_format(output_text)
          ELSE output_text
    /\ UNCHANGED <<input_text, opt, lines, arg, result, calls, fn>>

Next ==
    \/ Guard
    \/ ExtractStage
    \/ SplitStage
    \/ CollapseStage
    \/ RemoveBoldStage
    \/ RemoveLinksStage
    \/ RemoveImagesStage
    \/ RemoveStrikethroughStage
    \/ JoinStage
    \/ FixBoldStage
    \/ RemoveHorizontalStage
    \/ ShiftStage
    \/ RemovePlainStage
    \/ NumberStage
    \/ ClearStage

(***************************************************************************)
(* One transform called on its own, and again on what it returned.         *)
(***************************************************************************)
CallInit(args) ==
    /\ arg \in args
    /\ result = <<>>
    /\ calls = 0
    /\ fn = "none"
    /\ input_text = <<>>
    /\ opt = DefaultOptions
    /\ output_text = <<>>
    /\ lines = <<>>
    /\ pc = "idle"

\* the argument of the next call: the input, then what the last call returned
NextArg == IF calls = 0 THEN arg ELSE result

\* the transform called name is called on NextArg and returns value
Call(name, value) ==
    /\ pc = "idle"
    /\ fn \in {"none", name}
    /\ calls < MaxCalls
    /\ arg' = NextArg
    /\ result' = value
    /\ calls' = calls + 1
    /\ fn' = name
    /\ UNCHANGED pipeVars

call_number_headings == Call("number_headings", number_headings(NextArg))

call_extract_headings == Call("extract_headings", extract_headings(NextArg))

call_remove_blank_lines ==
    Call("remove_blank_lines", remove_blank_lines_between_list_items(NextArg))

call_fix_bold_symbol_issue ==
    Call("fix_bold_symbol_issue", fix_bold_symbol_issue(NextArg))

(***************************************************************************)
(* Specifications: the pipeline under the default options, and one         *)
(* specification for each family of inputs and options the properties use. *)
(***************************************************************************)
RoundTripAlphabet == {"a", " ", NL, CR}

RoundTripInputs == SeqsUpTo(RoundTripAlphabet, MaxTextLen)

Init == PipelineInit(RoundTripInputs, {DefaultOptions})

Spec == Init /\ [][Next]_vars

InitRoundTrip == PipelineInit(RoundTripInputs, {NoOptions})

SpecRoundTrip == InitRoundTrip /\ [][Next]_vars

(***************************************************************************)
(* C1. Round trip: with every option disabled, a non-blank input comes out *)
(* of the pipeline character for character, final line breaks included.    *)
(***************************************************************************)
C1_RoundTrip ==
    (pc = "done" /\ strip(input_text) # <<>>) => output_text = input_text

(***************************************************************************)
(* number_headings and extract_headings called on documents of headings,   *)
(* fence delimiters and plain lines.                                       *)
(***************************************************************************)
HashA == <<"#", " ", "A">>

HashB == <<"#", "#", " ", "B">>

HashC == <<"#", "#", "#", " ", "C">>

HashD == <<"#", "#", " ", "D">>

HashE == <<"#", "#", "#", "#", " ", "E">>

HashF == <<"#", "#", "#", "#", "#", " ", "F">>

HashG == <<"#", "#", "#", "#", "#", "#", " ", "G">>

\* headings of levels 1..6: hashes, one space, one letter
SimpleHeadings == {HashA, HashB, HashC, HashD, HashE, HashF, HashG}

\* a heading that already carries a number, an indented heading-like line, a
\* plain line
OtherLines ==
    {<<"#", "#", "\t", "7", ".", "2", ".", " ", "H", " ">>,
     <<" ", "#", " ", "I">>,
     <<"t">>}

HeadingLines == SimpleHeadings \cup OtherLines \cup {Fence}

InitHeadings == CallInit(Docs(HeadingLines, MaxLines))

NextHeadings == call_number_headings \/ call_extract_headings

SpecHeadings == InitHeadings /\ [][NextHeadings]_vars

\* the lines of a text that join built: the pieces between its \n, an empty
\* last piece included
RECURSIVE LinesOf(_)
LinesOf(text) ==
    LET k == FindChar(text, NL, 1)
    IN  IF k = 0 THEN <<text>> ELSE <<Take(text, k - 1)>> \o LinesOf(Drop(text, k))

\* the number of leading "#" of a line
LeadingHashes(line) ==
    IF \A k \in 1..Len(line) : line[k] = "#" THEN Len(line)
    ELSE (CHOOSE k \in 1..Len(line) :
              line[k] # "#" /\ \A j \in 1..(k - 1) : line[j] = "#") - 1

\* the counter of level lv (2..6) after line i of a document of headings: the
\* number of level-lv headings since the last heading of a smaller level
SiblingCount(ls, i, lv) ==
    LET breaks == {j \in 1..i : LeadingHashes(ls[j]) < lv}
        since == IF breaks = {} THEN 0
                 ELSE CHOOSE j \in breaks : \A b \in breaks : b <= j
    IN  Cardinality({j \in (since + 1)..i : LeadingHashes(ls[j]) = lv})

\* the non-zero counters of levels 2..lv after line i, each followed by a dot
RECURSIVE DottedCounts(_, _, _)
DottedCounts(ls, i, lv) ==
    IF lv < 2 THEN <<>>
    ELSE DottedCounts(ls, i, lv - 1)
         \o (IF SiblingCount(ls, i, lv) > 0
             THEN str(SiblingCount(ls, i, lv)) \o <<".">> ELSE <<>>)

\* what the claim says line i of a document of simple headings becomes
NumberedHeading(ls, i) ==
    LET lv == LeadingHashes(ls[i])
    IN  IF lv = 1 THEN ls[i]
        ELSE Hashes(lv) \o <<" ">> \o DottedCounts(ls, i, lv) \o <<" ">>
             \o Drop(ls[i], lv + 1)

HierarchyExample == join(<<HashA, HashB, HashC, HashD>>)

HierarchyExampleNumbered ==
    join(<<HashA,
           <<"#", "#", " ", "1", ".", " ", "B">>,
           <<"#", "#", "#", " ", "1", ".", "1", ".", " ", "C">>,
           <<"#", "#", " ", "2", ".", " ", "D">>>>)

NumberedOnce == pc = "idle" /\ fn = "number_headings" /\ calls = 1

(***************************************************************************)
(* C2. Numbering hierarchy: on a document of headings of levels 1..6,      *)
(* number_headings leaves a level-1 heading unchanged and zeroes the five  *)
(* counters on it; on a level-L heading the counter of L counts the        *)
(* siblings under the same parent, the deeper counters are zero, and the   *)
(* line gets the dot-joined non-zero counters of levels 2..L, a dot and    *)
(* one space.  "# A", "## B", "### C", "## D" numbers B 1., C 1.1., D 2.   *)
(***************************************************************************)
C2_NumberingHierarchy ==
    (NumberedOnce /\ \A i \in 1..Len(LinesOf(arg)) : LinesOf(arg)[i] \in SimpleHeadings)
    => LET ls == LinesOf(arg)
       IN  /\ result = join([i \in 1..Len(ls) |-> NumberedHeading(ls, i)])
           /\ \A i \in 1..Len(ls) :
                 number_state(ls, i).counters
                     = [k \in 1..5 |-> SiblingCount(ls, i, k + 1)]
           /\ \A i \in 1..Len(ls) :
                 LET lv == LeadingHashes(ls[i])
                 IN  /\ lv = 1 => number_state(ls, i).counters = ZeroCounters
                     /\ lv > 1 =>
                          /\ number_state(ls, i).counters[lv - 1]
                                 = SiblingCount(ls, i - 1, lv) + 1
                          /\ \A k \in lv..5 : number_state(ls, i).counters[k] = 0
           /\ arg = HierarchyExample => result = HierarchyExampleNumbered

\* a third sibling numbered under a parent: "## B", "### C", "### C", "### C"
C2_Witness ==
    /\ NumberedOnce
    /\ arg = join(<<HashB, HashC, HashC, HashC>>)
    /\ LinesOf(result)[4] = <<"#", "#", "#", " ", "1", ".", "3", ".", " ", "C">>

(***************************************************************************)
(* C3. Code-fence immunity: a heading-like line inside a fenced block (an  *)
(* odd number of delimiter lines before it) is no part of the output of    *)
(* extract_headings, and number_headings emits it unchanged and leaves the *)
(* counters alone; the fence flag starts false and toggles on every        *)
(* delimiter line, so an unterminated fence covers the rest.               *)
(***************************************************************************)
FencesBefore(ls, i) == Cardinality({j \in 1..(i - 1) : is_fence(ls[j])})

InsideFence(ls, i) == ~is_fence(ls[i]) /\ FencesBefore(ls, i) % 2 = 1

\* the lines of ls that are heading-like and neither delimiters nor inside a fence
RECURSIVE OpenHeadings(_, _)
OpenHeadings(ls, n) ==
    IF n = 0 THEN <<>>
    ELSE IF is_heading_like(ls[n]) /\ ~is_fence(ls[n]) /\ ~InsideFence(ls, n)
         THEN Append(OpenHeadings(ls, n - 1), ls[n])
         ELSE OpenHeadings(ls, n - 1)

C3_FenceImmunity ==
    LET ls == LinesOf(arg)
    IN  /\ (pc = "idle" /\ fn = "extract_headings" /\ calls = 1)
           => result = join(OpenHeadings(ls, Len(ls)))
        /\ NumberedOnce
           => \A i \in 1..Len(ls) :
                 /\ number_state(ls, i).in_code_block
                        = (FencesBefore(ls, i + 1) % 2 = 1)
                 /\ InsideFence(ls, i)
                    => /\ LinesOf(result)[i] = ls[i]
                       /\ number_state(ls, i).counters
                              = number_state(ls, i - 1).counters

\* "## B", a fence that is never closed, "# A", "## B": only the first line is
\* extracted
C3_Witness ==
    /\ pc = "idle" /\ fn = "extract_headings" /\ calls = 1
    /\ arg = join(<<HashB, Fence, HashA, HashB>>)
    /\ result = HashB

ItemA == <<"-", " ", "a">>

ItemB == <<"-", " ", "b">>

Paragraph == <<"P", "a", "r", "a", "g", "r", "a", "p", "h">>

ListLines ==
    {ItemA, ItemB, <<" ", "*", " ", "c">>, <<"1", "2", ".", "\t", "d">>,
     <<>>, <<" ">>, Paragraph, <<"-", "x">>, <<"1", ".">>}

InitCollapse == CallInit(SeqsUpTo(ListLines, MaxListLines))

NextCollapse == call_remove_blank_lines

SpecCollapse == InitCollapse /\ [][NextCollapse]_vars

\* trimmed content starting with "- ", "* " or digits, a dot and whitespace
ListItem(line) ==
    LET t == strip(line)
    IN  \/ Len(t) >= 2 /\ t[1] \in {"-", "*"} /\ t[2] = " "
        \/ \E k \in 2..(Len(t) - 1) :
              /\ \A j \in 1..(k - 1) : t[j] \in Digits
              /\ t[k] = "."
              /\ t[k + 1] \in Whitespace

Blank(line) == \A k \in 1..Len(line) : line[k] \in Whitespace

\* a blank line with a list item right before it and right after it
Sandwiched(ls, i) ==
    /\ Blank(ls[i])
    /\ i > 1 /\ ListItem(ls[i - 1])
    /\ i < Len(ls) /\ ListItem(ls[i + 1])

\* the first n lines of ls without the sandwiched blank lines
RECURSIVE WithoutSandwiched(_, _)
WithoutSandwiched(ls, n) ==
    IF n = 0 THEN <<>>
    ELSE IF Sandwiched(ls, n) THEN WithoutSandwiched(ls, n - 1)
    ELSE Append(WithoutSandwiched(ls, n - 1), ls[n])

CollapseExample == <<ItemA, <<>>, ItemB, <<>>, Paragraph>>

(***************************************************************************)
(* C5. List collapse: a blank line is deleted if and only if the lines     *)
(* right before and right after it in the input are both list items; every *)
(* other line is kept, in order.  "- a", "", "- b", "", "Paragraph"        *)
(* becomes "- a", "- b", "", "Paragraph".                                  *)
(***************************************************************************)
C5_ListCollapse ==
    (pc = "idle" /\ fn = "remove_blank_lines" /\ calls >= 1)
    => /\ result = WithoutSandwiched(arg, Len(arg))
       /\ arg = CollapseExample => result = <<ItemA, ItemB, <<>>, Paragraph>>

C5_Witness ==
    /\ pc = "idle" /\ fn = "remove_blank_lines" /\ calls = 1
    /\ arg = CollapseExample
    /\ result = <<ItemA, ItemB, <<>>, Paragraph>>

(***************************************************************************)
(* fix_bold_symbol_issue called on texts made of up to MaxBoldLen pieces:   *)
(* "**", "*", a letter, a symbol, a space, a line break.                   *)
(***************************************************************************)
BoldPieces == {<<"*", "*">>, <<"*">>, <<"a">>, <<"!">>, <<" ">>, <<NL>>}

\* the pieces of ps one after the other
RECURSIVE Concat(_)
Concat(ps) == IF ps = <<>> THEN <<>> ELSE ps[1] \o Concat(Tail(ps))

InitBold == CallInit({Concat(ps) : ps \in SeqsUpTo(BoldPieces, MaxBoldLen)})

NextBold == call_fix_bold_symbol_issue

SpecBold == InitBold /\ [][NextBold]_vars

(***************************************************************************)
(* C8. Bold-spacing idempotence: fix_bold_symbol_issue run on its own      *)
(* output returns it unchanged, whatever the arrangement of "**" markers;  *)
(* a second run never inserts a second space.                              *)
(***************************************************************************)
C8_BoldSpacingIdempotent ==
    (pc = "idle" /\ fn = "fix_bold_symbol_issue" /\ calls >= 2) => result = arg

\* the second run on "**!** a", which the first run made of "**!**a"
C8_Witness ==
    /\ pc = "idle" /\ fn = "fix_bold_symbol_issue" /\ calls = 2
    /\ arg = <<"*", "*", "!", "*", "*", " ", "a">>
    /\ result = arg

\* the bold spans of s: the matches of the pattern from position i on, each
\* [open, close, stop]: the positions of its two "**" and the position after it
RECURSIVE BoldSpans(_, _)
BoldSpans(s, i) ==
    IF i > Len(s) THEN <<>>
    ELSE LET m == bold_at(s, i)
         IN  IF m[1] # 0
             THEN <<[open |-> i, close |-> m[1], stop |-> m[2]]>> \o BoldSpans(s, m[2])
             ELSE BoldSpans(s, i + 1)

SpanContent(s, span) == SubSeq(s, span.open + 2, span.close - 1)

Symbol(c) == c \notin Letters \cup Digits \cup Whitespace

\* the closing "**" of the span is followed by whitespace
FollowedBySpace(s, span) ==
    span.close + 2 <= Len(s) /\ s[span.close + 2] \in Whitespace

\* s with one space put after every position of at
RECURSIVE WithSpacesAfter(_, _, _)
WithSpacesAfter(s, at, n) ==
    IF n = 0 THEN <<>>
    ELSE WithSpacesAfter(s, at, n - 1) \o <<s[n]>>
         \o (IF n \in at THEN <<" ">> ELSE <<>>)

\* the bold spans of s, as a set
SpanSet(s) == {BoldSpans(s, 1)[k] : k \in 1..Len(BoldSpans(s, 1))}

EndsWithSymbol(s, span) ==
    /\ Symbol(SpanContent(s, span)[Len(SpanContent(s, span))])
    /\ ~FollowedBySpace(s, span)

ContainsSymbol(s, span) ==
    /\ \E k \in 1..Len(SpanContent(s, span)) : Symbol(SpanContent(s, span)[k])
    /\ ~FollowedBySpace(s, span)

FixedBoldOnce == pc = "idle" /\ fn = "fix_bold_symbol_issue" /\ calls = 1

(***************************************************************************)
(* C10 as stated. Bold-spacing repair condition: one space is inserted     *)
(* after the closing "**" of a bold span if and only if the content of the *)
(* span ends with a character that is neither alphanumeric nor whitespace  *)
(* and no whitespace follows the closing "**"; nothing else changes.       *)
(***************************************************************************)
C10_RepairWhenContentEndsWithSymbol ==
    FixedBoldOnce
    => result = WithSpacesAfter(arg,
                   {span.close + 1 :
                       span \in {x \in SpanSet(arg) : EndsWithSymbol(arg, x)}},
                   Len(arg))

(***************************************************************************)
(* C10 as amended. One space is inserted after the closing "**" of a bold  *)
(* span if and only if the content of the span contains a character that   *)
(* is neither alphanumeric nor whitespace and no whitespace follows the    *)
(* closing "**"; nothing else changes.                                     *)
(***************************************************************************)
C10_RepairWhenContentHasSymbol ==
    FixedBoldOnce
    => result = WithSpacesAfter(arg,
                   {span.close + 1 :
                       span \in {x \in SpanSet(arg) : ContainsSymbol(arg, x)}},
                   Len(arg))

\* "**!a**a": the content has a symbol and ends with a letter, and the space is
\* inserted
C10_Witness ==
    /\ FixedBoldOnce
    /\ arg = <<"*", "*", "!", "a", "*", "*", "a">>
    /\ result = <<"*", "*", "!", "a", "*", "*", " ", "a">>

(***************************************************************************)
(* The pipeline with only the heading-level slider moved.                  *)
(***************************************************************************)
\* headings of levels 1..6 with several space tokens, a bare "######", and lines
\* that do not begin with "#"
ShiftLines ==
    {Hashes(lv) \o <<" ", "T">> : lv \in 1..6}
    \cup {<<"#", "T">>, <<"#", "#", "\t", " ", "T", " ">>, Hashes(6)}
    \cup {<<"T">>, <<" ", "#", " ", "T">>, <<"T", " ", "#">>}

ShiftOptions == {[NoOptions EXCEPT !.heading_shift = m] : m \in ShiftRange}

InitShift == PipelineInit(Docs(ShiftLines, MaxShiftLines), ShiftOptions)

SpecShift == InitShift /\ [][Next]_vars

Min(a, b) == IF a < b THEN a ELSE b

Max(a, b) == IF a > b THEN a ELSE b

\* a line that begins with "#" at level min(6, L + m) for m >= 0 and
\* max(1, L + m) for m < 0, the rest of the line as it was; any other line as it was
ShiftedLine(line, m) ==
    LET lv == LeadingHashes(line)
    IN  IF lv = 0 THEN line
        ELSE Hashes(IF m >= 0 THEN Min(6, lv + m) ELSE Max(1, lv + m))
             \o Drop(line, lv)

(***************************************************************************)
(* C6. Heading shift clamp: shift_headings applied m times turns a heading *)
(* of level L in 1..6 into level min(6, L+m) upwards and max(1, L-m)       *)
(* downwards; the whitespace after the hashes and the content are kept,    *)
(* and a line that is no heading passes through unchanged.                 *)
(***************************************************************************)
C6_ShiftClamp ==
    pc = "done"
    => LET ls == LinesOf(input_text)
       IN  output_text
               = join([i \in 1..Len(ls) |-> ShiftedLine(ls[i], opt.heading_shift)])

\* a level-5 heading and a level-1 heading shifted up three times
C6_Witness ==
    /\ pc = "done"
    /\ opt.heading_shift = 3
    /\ input_text = join(<<Hashes(5) \o <<" ", "T">>, <<"#", " ", "T">>>>)
    /\ output_text = join(<<Hashes(6) \o <<" ", "T">>, Hashes(4) \o <<" ", "T">>>>)

(***************************************************************************)
(* The pipeline on documents with a fenced block, under every option set   *)
(* that leaves heading extraction, plain-text removal and the full clear   *)
(* disabled.                                                               *)
(***************************************************************************)
Fenced(ls) == <<Fence>> \o ls \o <<Fence>>

FenceDocs ==
    {join(Fenced(<<<<"#", " ", "x">>>>)),
     join(Fenced(<<<<"*", "*", "a", "!", "*", "*", "b">>>>)),
     join(Fenced(<<<<"-", "-", "-">>>>)),
     join(Fenced(<<ItemA, <<>>, ItemB>>)),
     join(Fenced(<<<<"[", "a", "]", "(", "u", ")", "!", "[", "b", "]", "(", "u", ")",
                     "~", "~", "c", "~", "~">>>>)),
     join(<<<<"x">>>> \o Fenced(<<<<"y">>>>))}

FenceOptions ==
    {[NoOptions EXCEPT !.remove_blank_lines = b1, !.remove_links = b2,
                       !.remove_images = b3, !.remove_bold = b4,
                       !.fix_bold_symbols = b5, !.remove_strikethrough = b6,
                       !.remove_horizontal = b7, !.auto_number_headings = b8,
                       !.heading_shift = m] :
        b1 \in BOOLEAN, b2 \in BOOLEAN, b3 \in BOOLEAN, b4 \in BOOLEAN,
        b5 \in BOOLEAN, b6 \in BOOLEAN, b7 \in BOOLEAN, b8 \in BOOLEAN,
        m \in ShiftRange}

InitFence == PipelineInit(FenceDocs, FenceOptions)

SpecFence == InitFence /\ [][Next]_vars

\* the lines of ls strictly between a delimiter line and the delimiter that
\* closes it
RECURSIVE FencedLines(_, _)
FencedLines(ls, n) ==
    IF n = 0 THEN <<>>
    ELSE IF InsideFence(ls, n) /\ \E j \in (n + 1)..Len(ls) : is_fence(ls[j])
         THEN Append(FencedLines(ls, n - 1), ls[n])
         ELSE FencedLines(ls, n - 1)

\* xs can be read off ys from position i on, in order
RECURSIVE Embeds(_, _, _)
Embeds(xs, ys, i) ==
    IF xs = <<>> THEN TRUE
    ELSE IF i > Len(ys) THEN FALSE
    ELSE IF ys[i] = xs[1] THEN Embeds(Tail(xs), ys, i + 1)
    ELSE Embeds(xs, ys, i + 1)

(***************************************************************************)
(* C4. The pipeline never rewrites inside a fenced code block: with        *)
(* heading extraction, plain-text removal and the full clear disabled,     *)
(* every line between a pair of delimiter lines is in the output,          *)
(* unchanged and in the same order, whatever the other options are.        *)
(***************************************************************************)
C4_FencedLinesUntouched ==
    pc = "done"
    => Embeds(FencedLines(LinesOf(input_text), Len(LinesOf(input_text))),
              LinesOf(output_text), 1)

(***************************************************************************)
(* The pipeline with only "Clear all formatting" ticked.                   *)
(***************************************************************************)
TitleLine == <<"#", " ", "T", "i", "t", "l", "e">>

SpansLine ==
    <<"*", "*", "b", "o", "l", "d", "*", "*", " ", "a", "n", "d", " ",
      "[", "l", "i", "n", "k", "]", "(", "u", "r", "l", ")", " ", "a", "n", "d", " ",
      "!", "[", "i", "m", "g", "]", "(", "u", "r", "l", ")">>

\* a line, and what the claim says it becomes
ClearLines ==
    {[line |-> TitleLine, rule |-> FALSE, plain |-> <<"T", "i", "t", "l", "e">>],
     [line |-> SpansLine, rule |-> FALSE,
      plain |-> <<"b", "o", "l", "d", " ", "a", "n", "d", " ", "l", "i", "n", "k",
                  " ", "a", "n", "d", " ", "i", "m", "g">>],
     [line |-> <<"t">>, rule |-> FALSE, plain |-> <<"t">>],
     [line |-> <<"-", "-", "-">>, rule |-> TRUE, plain |-> <<>>],
     [line |-> <<"*", "*", "*">>, rule |-> TRUE, plain |-> <<>>],
     [line |-> <<"_", "_", "_">>, rule |-> TRUE, plain |-> <<>>]}

\* the scenario of the spec: "# Title", the line of spans, "---"
ClearExample == join(<<TitleLine, SpansLine, <<"-", "-", "-">>>>)

\* the scenario, and the documents of up to MaxClearLines of the other lines
ClearDocs ==
    {ClearExample} \cup Docs({c.line : c \in ClearLines} \ {SpansLine}, MaxClearLines)

ClearOptions == {[NoOptions EXCEPT !.clear_formatting = TRUE]}

InitClear == PipelineInit(ClearDocs, ClearOptions)

SpecClear == InitClear /\ [][Next]_vars

\* the lines the claim says are emitted for the first n lines of ls
RECURSIVE ClearedLines(_, _)
ClearedLines(ls, n) ==
    IF n = 0 THEN <<>>
    ELSE LET c == CHOOSE c \in ClearLines : c.line = ls[n]
         IN  IF c.rule THEN ClearedLines(ls, n - 1)
             ELSE Append(ClearedLines(ls, n - 1), c.plain)

(***************************************************************************)
(* C9. Destructive clear: with only the full clear enabled, every line     *)
(* that is no rule is emitted without its heading marker and with its      *)
(* bold, link and image spans replaced by their inner text, link text and  *)
(* alt text, and a line that is a pure horizontal rule is dropped.         *)
(***************************************************************************)
C9_ClearDropsRules ==
    pc = "done"
    => output_text
           = join(ClearedLines(LinesOf(input_text), Len(LinesOf(input_text))))

====
